---- MODULE Spec2Model ----
(***************************************************************************)
(* VA-Synth (src/main.py): the Streamlit script that replaces the audio    *)
(* track of an uploaded video.  The script body is one run of a pipeline   *)
(*   upload -> extract -> transcribe -> correct -> synthesize -> mux       *)
(* whose stages hand results over through temporary files.                 *)
(*                                                                         *)
(* Python values: a stage result is None or Some(v); every v is a string   *)
(* (a path, a text, an encoded byte buffer), "" being the empty one.       *)
(* External collaborators (codec libraries, recognizer, language model,    *)
(* synthesizer) are inputs chosen with \E in the actions.                  *)
(***************************************************************************)
EXTENDS Integers, Sequences, FiniteSets, TLC

VARIABLES
    pc,                       \* position in the script body (lines 171-204)
    files,                    \* temporary files that exist on disk
    errors,                   \* st.error reports, in order
    warned,                   \* st.warning shown (line 204)
    calls,                    \* stage functions invoked, in order
    audio_path,               \* line 178
    transcription,            \* line 182
    corrected_transcription,  \* line 186
    new_audio,                \* line 190
    output_video_path,        \* line 194
    offered,                  \* st.download_button shown (line 199)
    removals,                 \* how often os.remove(temp_path) ran (line 202)
    stt,                      \* what transcribe_audio did with the recognizer
    reply,                    \* what requests.post gave correct_transcription
    mux,                      \* how replace_audio_in_video ended
    audio,                    \* SpecSplit: the waveform, one sample per ms
    chunk_length,             \* SpecSplit: chunk_length_ms
    pieces,                   \* SpecSplit: the chunks split_audio_into_chunks wrote
    split_pc                  \* SpecSplit: "ready" or "split"

vars == <<pc, files, errors, warned, calls, audio_path, transcription,
          corrected_transcription, new_audio, output_video_path, offered,
          removals, stt, reply, mux, audio, chunk_length, pieces, split_pc>>

pipeline_vars == <<pc, files, errors, warned, calls, audio_path, transcription,
                   corrected_transcription, new_audio, output_video_path,
                   offered, removals, stt, reply, mux>>

split_vars == <<audio, chunk_length, pieces, split_pc>>

----------------------------------------------------------------------------
(* Bounds of the model *)

MaxResults == 2      \* recognition results in one response
MaxAudioLen == 4     \* SpecSplit: longest waveform, in ms
MaxChunkLen == 3     \* SpecSplit: largest chunk length, in ms

----------------------------------------------------------------------------
(* Python values *)

None == [none |-> TRUE]
Some(v) == [val |-> v]

\* Python truthiness of a stage result: None and the empty string/bytes are false
Truthy(r) == r # None /\ r.val # ""

Min(a, b) == IF a < b THEN a ELSE b

\* range(start, stop, step) for step > 0, as a sequence
Range(start, stop, step) ==
    IF stop <= start THEN <<>>
    ELSE [k \in 1..((stop - start + step - 1) \div step) |-> start + (k - 1) * step]

\* " ".join(list)
RECURSIVE JoinSpace(_)
JoinSpace(s) ==
    IF s = <<>> THEN ""
    ELSE IF Len(s) = 1 THEN s[1]
    ELSE s[1] \o " " \o JoinSpace(Tail(s))

----------------------------------------------------------------------------
(* Temporary files, by the variable that names them in the source *)

temp_path == "video"                 \* line 175
temp_audio_path == "wav"             \* line 27
temp_compressed_path == "compressed" \* line 49
chunk_path(k) == "chunk" \o ToString(k)   \* line 60, k-th chunk (0-based)
mux_audio_path == "mp3"              \* line 155
output_path == "out"                 \* line 161

\* one st.error report
Report(stage, e) == [stage |-> stage, exc |-> e]

----------------------------------------------------------------------------
(* split_audio_into_chunks (lines 54-63) *)

chunk_length_ms == 60000

\* mutant: the slice taken as audio[i:i + L + 1], one ms into the next chunk
ChunkSpans_Overlap(D, L) ==
    LET starts == Range(0, D, L)
    IN  [k \in 1..Len(starts) |->
            [start |-> starts[k], stop |-> Min(starts[k] + L + 1, D)]]

\* the [start, stop) span in ms of every audio[i:i + L], i in range(0, D, L)
ChunkSpans(D, L) ==
    LET starts == Range(0, D, L)
    IN  [k \in 1..Len(starts) |->
            [start |-> starts[k], stop |-> Min(starts[k] + L, D)]]

\* the chunk files in the order they are appended to `chunks`: the loop
\* variable i each was cut at, and the samples exported to it
split_audio_into_chunks(a, L) ==
    LET spans == ChunkSpans(Len(a), L)
    IN  [k \in 1..Len(spans) |->
            [start |-> spans[k].start,
             pcm   |-> SubSeq(a, spans[k].start + 1, spans[k].stop)]]

----------------------------------------------------------------------------
(* extract_audio_from_video (lines 22-38) *)

\* how the codec libraries treat the video
ExtractOutcomes == {"ok", "open_failed", "no_audio", "decode_failed"}

extract_audio_from_video(video_exists, outcome) ==
    IF ~video_exists \/ outcome = "open_failed"
    THEN \* VideoFileClip raises (line 26) before the temporary file is made
         [ret |-> None, created |-> {},
          errs |-> <<Report("extraction", "open_failed")>>]
    ELSE IF outcome = "ok"
    THEN [ret |-> Some(temp_audio_path), created |-> {temp_audio_path}, errs |-> <<>>]
    ELSE \* video.audio is None (line 28) or pydub fails (lines 31-33): the
         \* NamedTemporaryFile of line 27 is already on disk
         [ret |-> None, created |-> {temp_audio_path},
          errs |-> <<Report("extraction", outcome)>>]

----------------------------------------------------------------------------
(* transcribe_audio (lines 65-104), with compress_audio (lines 40-52) *)

\* `if os.path.getsize(compressed_audio_path) > 10 * 1024 * 1024` (line 89)
size_limit == 10 * 1024 * 1024

\* mutant: the test written with >=
NeedsChunking_AtLimit(size) == size >= size_limit

NeedsChunking(size) == size > size_limit

\* The normalized waveform: len(audio) in ms and os.path.getsize in bytes.
\* Mono 16-bit PCM: size = 44 + 2 * frames, len = round(1000 * frames / rate).
Waveforms ==
    { [len |-> 0,      size |-> 44],                \* empty track
      [len |-> 30000,  size |-> 2646044],           \* 30 s at 44.1 kHz
      [len |-> 109226, size |-> size_limit - 2],    \* 48 kHz, just under
      [len |-> 109226, size |-> size_limit],        \* 48 kHz, exactly 10 MiB
      [len |-> 109226, size |-> size_limit + 2],    \* 48 kHz, just over
      [len |-> 60000,  size |-> 11520044],          \* 96 kHz, one full chunk
      [len |-> 120000, size |-> 11520044],          \* 48 kHz, two full chunks
      [len |-> 163840, size |-> 15 * 1024 * 1024] } \* 48 kHz, 15 MiB

\* recognized text of one result's first alternative
Words == {"a", "b"}

ResultSeqs == UNION { [1..m -> Words] : m \in 0..MaxResults }

\* client.recognize: an exception, or a response with its results
Responses == {[exc |-> "unavailable"]} \cup {[results |-> r] : r \in ResultSeqs}

IsExc(r) == "exc" \in DOMAIN r

PreOutcomes == {"ok", "decode_failed", "client_failed"}

\* the `for chunk in chunks` loop (lines 92-96) from chunk k (1-based) on:
\* failedAt is the 0-based index of the chunk whose recognize call raised
NoChunk == [none |-> TRUE]

\* mutant: each chunk's texts put in front of the ones collected so far
RECURSIVE RecognizeChunks_Prepend(_, _, _)
RecognizeChunks_Prepend(resp, k, acc) ==
    IF k > Len(resp)
    THEN [failedAt |-> NoChunk, transcriptions |-> acc, sent |-> Len(resp)]
    ELSE IF IsExc(resp[k])
    THEN [failedAt |-> Some(k - 1), transcriptions |-> acc, sent |-> k]
    ELSE RecognizeChunks_Prepend(resp, k + 1, resp[k].results \o acc)

\* mutant: a failing chunk is noted and the loop goes on with the next one
RECURSIVE RecognizeChunks_KeepGoing(_, _, _)
RecognizeChunks_KeepGoing(resp, k, acc) ==
    IF k > Len(resp)
    THEN [failedAt |-> NoChunk, transcriptions |-> acc, sent |-> Len(resp)]
    ELSE IF IsExc(resp[k])
    THEN [failedAt |-> Some(k - 1), transcriptions |-> acc, sent |-> Len(resp)]
    ELSE RecognizeChunks_KeepGoing(resp, k + 1, acc \o resp[k].results)

RECURSIVE RecognizeChunks(_, _, _)
RecognizeChunks(resp, k, acc) ==
    IF k > Len(resp)
    THEN [failedAt |-> NoChunk, transcriptions |-> acc, sent |-> Len(resp)]
    ELSE IF IsExc(resp[k])
    THEN [failedAt |-> Some(k - 1), transcriptions |-> acc, sent |-> k]
    ELSE RecognizeChunks(resp, k + 1, acc \o resp[k].results)

\* the requests the recognizer receives for waveform w
RequestCount(w) ==
    IF NeedsChunking(w.size) THEN Len(ChunkSpans(w.len, chunk_length_ms)) ELSE 1

NoStt == [ran |-> FALSE]

transcribe_audio(pre, w, resp) ==
    IF pre = "decode_failed"
    THEN \* AudioSegment.from_wav raises in compress_audio (line 42)
         [ret |-> None, created |-> {},
          errs |-> <<Report("transcription", pre)>>, trace |-> NoStt]
    ELSE IF pre = "client_failed"
    THEN \* speech.SpeechClient() raises (line 75), after compress_audio
         [ret |-> None, created |-> {temp_compressed_path},
          errs |-> <<Report("transcription", pre)>>, trace |-> NoStt]
    ELSE IF NeedsChunking(w.size)
    THEN LET spans == ChunkSpans(w.len, chunk_length_ms)
             run   == RecognizeChunks(resp, 1, <<>>)
             trace == [ran       |-> TRUE,
                       waveform  |-> w,
                       chunked   |-> TRUE,
                       chunks    |-> spans,
                       requests  |-> [k \in 1..run.sent |->
                                        [index |-> k - 1,
                                         len |-> spans[k].stop - spans[k].start]],
                       responses |-> SubSeq(resp, 1, run.sent),
                       failedAt  |-> run.failedAt]
             made  == {temp_compressed_path}
                        \cup {chunk_path(k - 1) : k \in 1..Len(spans)}
         IN  IF run.failedAt = NoChunk
             THEN [ret |-> Some(JoinSpace(run.transcriptions)), created |-> made,
                   errs |-> <<>>, trace |-> trace]
             ELSE [ret |-> None, created |-> made,
                   errs |-> <<Report("transcription",
                                     resp[run.failedAt.val + 1].exc)>>,
                   trace |-> trace]
    ELSE LET trace == [ran       |-> TRUE,
                       waveform  |-> w,
                       chunked   |-> FALSE,
                       chunks    |-> <<>>,
                       requests  |-> <<[whole |-> TRUE, len |-> w.len]>>,
                       responses |-> resp,
                       failedAt  |-> NoChunk]
         IN  IF IsExc(resp[1])
             THEN [ret |-> None, created |-> {temp_compressed_path},
                   errs |-> <<Report("transcription", resp[1].exc)>>,
                   trace |-> trace]
             ELSE [ret |-> Some(JoinSpace(resp[1].results)),
                   created |-> {temp_compressed_path},
                   errs |-> <<>>, trace |-> trace]

----------------------------------------------------------------------------
(* correct_transcription (lines 106-131) *)

\* response.json() bodies; a JSON string is Some(s), JSON null is None
Bodies(text) ==
    { [error |-> "quota"],
      [choices |-> <<>>],
      [choices |-> <<[index |-> 0]>>],
      [choices |-> <<[index |-> 0, message |-> [role |-> "assistant"]]>>],
      [choices |-> <<[index |-> 0, message |-> [role |-> "assistant", content |-> None]]>>],
      [choices |-> <<[index |-> 0, message |-> [role |-> "assistant", content |-> Some("")]]>>],
      [choices |-> <<[index |-> 0, message |-> [role |-> "assistant", content |-> Some(text)]]>>] }

\* requests.post: an exception, or a status with a body that parses or not
Replies(text) ==
    {[exc |-> "timeout"]}
      \cup {[status |-> s, json |-> FALSE] : s \in {200, 500}}
      \cup {[status |-> 200, json |-> TRUE, data |-> d] : d \in Bodies(text)}
      \cup {[status |-> s, json |-> TRUE,
             data |-> [choices |-> <<[index |-> 0,
                          message |-> [role |-> "assistant", content |-> Some(text)]]>>]]
              : s \in {201, 404}}

NoReply == [none |-> TRUE]

correct_transcription(text, r) ==
    IF "exc" \in DOMAIN r
    THEN [ret |-> None, errs |-> <<Report("correction", r.exc)>>]
    ELSE IF r.status = 200
    THEN IF ~r.json
         THEN \* response.json() raises (line 118)
              [ret |-> None, errs |-> <<Report("correction", "JSONDecodeError")>>]
         ELSE IF "choices" \in DOMAIN r.data /\ Len(r.data.choices) > 0
         THEN IF "message" \in DOMAIN r.data.choices[1]
                   /\ "content" \in DOMAIN r.data.choices[1].message
              THEN [ret |-> r.data.choices[1].message.content, errs |-> <<>>]
              ELSE \* KeyError at line 120
                   [ret |-> None, errs |-> <<Report("correction", "KeyError")>>]
         ELSE [ret |-> None, errs |-> <<Report("correction", "unexpected_format")>>]
    ELSE [ret |-> None, errs |-> <<Report("correction", "status")>>]

----------------------------------------------------------------------------
(* synthesize_speech (lines 134-149) *)

SynthOutcomes == {[exc |-> "unavailable"], [audio_content |-> ""], [audio_content |-> "ID3"]}

synthesize_speech(text, outcome) ==
    IF "exc" \in DOMAIN outcome
    THEN [ret |-> None, errs |-> <<Report("synthesis", outcome.exc)>>]
    ELSE [ret |-> Some(outcome.audio_content), errs |-> <<>>]

----------------------------------------------------------------------------
(* replace_audio_in_video (lines 151-168) *)

MuxOutcomes == {"ok", "open_failed", "decode_failed", "encode_failed"}

NoMux == [ran |-> FALSE]

replace_audio_in_video(video_exists, new_audio_content, outcome) ==
    IF ~video_exists \/ outcome = "open_failed"
    THEN \* VideoFileClip raises (line 154)
         [ret |-> None, created |-> {}, wrote |-> FALSE,
          errs |-> <<Report("mux", "open_failed")>>]
    ELSE IF outcome = "decode_failed"
    THEN \* AudioFileClip raises (line 159) on the file written at 155-157
         [ret |-> None, created |-> {mux_audio_path}, wrote |-> TRUE,
          errs |-> <<Report("mux", outcome)>>]
    ELSE IF outcome = "encode_failed"
    THEN \* write_videofile raises (line 162) after line 161 made the output
         [ret |-> None, created |-> {mux_audio_path, output_path}, wrote |-> TRUE,
          errs |-> <<Report("mux", outcome)>>]
    ELSE \* os.remove(temp_audio_path) (line 164)
         [ret |-> Some(output_path), created |-> {output_path}, wrote |-> TRUE,
          errs |-> <<>>]

----------------------------------------------------------------------------
(* The script body (lines 171-204) *)

SplitIdle ==
    /\ audio = <<>>
    /\ chunk_length = chunk_length_ms
    /\ pieces = <<>>
    /\ split_pc = "idle"

Init ==
    /\ pc = "start"
    /\ files = {}
    /\ errors = <<>>
    /\ warned = FALSE
    /\ calls = <<>>
    /\ audio_path = None
    /\ transcription = None
    /\ corrected_transcription = None
    /\ new_audio = None
    /\ output_video_path = None
    /\ offered = FALSE
    /\ removals = 0
    /\ stt = NoStt
    /\ reply = NoReply
    /\ mux = NoMux
    /\ SplitIdle

\* mutant: the tests written `if x is not None`
AfterStage_NotNone(r, next) == IF r # None THEN next ELSE "cleanup"

\* mutant: line 202 indented into the innermost `if`, so a stopped run skips it
AfterStage_NoCleanup(r, next) == IF Truthy(r) THEN next ELSE "done"

\* where the nested `if`s of lines 180-196 lead after a stage returned r
AfterStage(r, next) == IF Truthy(r) THEN next ELSE "cleanup"

\* `if uploaded_file and azure_api_key and azure_api_url` (line 172)
Ready(uploaded, key, url) == uploaded /\ key /\ url

\* lines 172-175: the upload is copied to a temporary file
Upload ==
    /\ pc = "start"
    /\ \E uploaded, key, url \in BOOLEAN : Ready(uploaded, key, url)
    /\ files' = files \cup {temp_path}
    /\ pc' = "extract"
    /\ UNCHANGED <<errors, warned, calls, audio_path, transcription,
                   corrected_transcription, new_audio, output_video_path,
                   offered, removals, stt, reply, mux>>
    /\ UNCHANGED split_vars

\* lines 203-204: no upload or no credentials
Warn ==
    /\ pc = "start"
    /\ \E uploaded, key, url \in BOOLEAN : ~Ready(uploaded, key, url)
    /\ warned' = TRUE
    /\ pc' = "done"
    /\ UNCHANGED <<files, errors, calls, audio_path, transcription,
                   corrected_transcription, new_audio, output_video_path,
                   offered, removals, stt, reply, mux>>
    /\ UNCHANGED split_vars

\* line 178 and the test of line 180
Extract ==
    /\ pc = "extract"
    /\ \E outcome \in ExtractOutcomes :
         LET r == extract_audio_from_video(temp_path \in files, outcome)
         IN  /\ audio_path' = r.ret
             /\ files' = files \cup r.created
             /\ errors' = errors \o r.errs
             /\ pc' = AfterStage(r.ret, "transcribe")
    /\ calls' = Append(calls, "extract")
    /\ UNCHANGED <<warned, transcription, corrected_transcription, new_audio,
                   output_video_path, offered, removals, stt, reply, mux>>
    /\ UNCHANGED split_vars

\* lines 181-182 and the test of line 184
Transcribe ==
    /\ pc = "transcribe"
    /\ \E pre \in PreOutcomes, w \in Waveforms :
         \E resp \in [1..RequestCount(w) -> Responses] :
           LET r == transcribe_audio(pre, w, resp)
           IN  /\ transcription' = r.ret
               /\ files' = files \cup r.created
               /\ errors' = errors \o r.errs
               /\ stt' = r.trace
               /\ pc' = AfterStage(r.ret, "correct")
    /\ calls' = Append(calls, "transcribe")
    /\ UNCHANGED <<warned, audio_path, corrected_transcription, new_audio,
                   output_video_path, offered, removals, reply, mux>>
    /\ UNCHANGED split_vars

\* lines 185-186 and the test of line 188
Correct ==
    /\ pc = "correct"
    /\ \E r \in Replies(transcription.val) :
         LET c == correct_transcription(transcription.val, r)
         IN  /\ corrected_transcription' = c.ret
             /\ errors' = errors \o c.errs
             /\ reply' = r
             /\ pc' = AfterStage(c.ret, "synthesize")
    /\ calls' = Append(calls, "correct")
    /\ UNCHANGED <<files, warned, audio_path, transcription, new_audio,
                   output_video_path, offered, removals, stt, mux>>
    /\ UNCHANGED split_vars

\* lines 189-190 and the test of line 192
Synthesize ==
    /\ pc = "synthesize"
    /\ \E outcome \in SynthOutcomes :
         LET r == synthesize_speech(corrected_transcription.val, outcome)
         IN  /\ new_audio' = r.ret
             /\ errors' = errors \o r.errs
             /\ pc' = AfterStage(r.ret, "mux")
    /\ calls' = Append(calls, "synthesize")
    /\ UNCHANGED <<files, warned, audio_path, transcription,
                   corrected_transcription, output_video_path, offered,
                   removals, stt, reply, mux>>
    /\ UNCHANGED split_vars

\* lines 193-194 and the test of line 196
Mux ==
    /\ pc = "mux"
    /\ \E outcome \in MuxOutcomes :
         LET r == replace_audio_in_video(temp_path \in files, new_audio.val, outcome)
         IN  /\ output_video_path' = r.ret
             /\ files' = files \cup r.created
             /\ errors' = errors \o r.errs
             /\ mux' = [ran |-> TRUE, wrote |-> r.wrote, video_read |-> temp_path \in files]
             /\ pc' = AfterStage(r.ret, "offer")
    /\ calls' = Append(calls, "mux")
    /\ UNCHANGED <<warned, audio_path, transcription, corrected_transcription,
                   new_audio, offered, removals, stt, reply>>
    /\ UNCHANGED split_vars

\* lines 197-200: the download is offered and the output file removed
Offer ==
    /\ pc = "offer"
    /\ offered' = TRUE
    /\ files' = files \ {output_video_path.val}
    /\ pc' = "cleanup"
    /\ UNCHANGED <<errors, warned, calls, audio_path, transcription,
                   corrected_transcription, new_audio, output_video_path,
                   removals, stt, reply, mux>>
    /\ UNCHANGED split_vars

\* line 202, reached from every branch of lines 180-200
Cleanup ==
    /\ pc = "cleanup"
    /\ files' = files \ {temp_path}
    /\ removals' = removals + 1
    /\ pc' = "done"
    /\ UNCHANGED <<errors, warned, calls, audio_path, transcription,
                   corrected_transcription, new_audio, output_video_path,
                   offered, stt, reply, mux>>
    /\ UNCHANGED split_vars

Next ==
    \/ Upload
    \/ Warn
    \/ Extract
    \/ Transcribe
    \/ Correct
    \/ Synthesize
    \/ Mux
    \/ Offer
    \/ Cleanup

Spec == Init /\ [][Next]_vars

----------------------------------------------------------------------------
(* split_audio_into_chunks on its own: every waveform, every chunk length *)

Samples == {0, 1}

AudioInputs == UNION { [1..n -> Samples] : n \in 0..MaxAudioLen }

InitSplit ==
    /\ pc = "off"
    /\ files = {}
    /\ errors = <<>>
    /\ warned = FALSE
    /\ calls = <<>>
    /\ audio_path = None
    /\ transcription = None
    /\ corrected_transcription = None
    /\ new_audio = None
    /\ output_video_path = None
    /\ offered = FALSE
    /\ removals = 0
    /\ stt = NoStt
    /\ reply = NoReply
    /\ mux = NoMux
    /\ audio \in AudioInputs
    /\ chunk_length \in 1..MaxChunkLen
    /\ pieces = <<>>
    /\ split_pc = "ready"

Split ==
    /\ split_pc = "ready"
    /\ pieces' = split_audio_into_chunks(audio, chunk_length)
    /\ split_pc' = "split"
    /\ UNCHANGED <<audio, chunk_length>>
    /\ UNCHANGED pipeline_vars

NextSplit == Split

SpecSplit == InitSplit /\ [][NextSplit]_vars

----------------------------------------------------------------------------
(* Properties *)

\* a run of the pipeline has ended (the script reached its last statement)
RunEnded == pc = "done" /\ ~warned

\* a stage result that is neither an error (None) nor empty
NonEmpty(r) == r # None /\ r.val # ""

StageOrder == <<"extract", "transcribe", "correct", "synthesize", "mux">>

StageResults ==
    <<audio_path, transcription, corrected_transcription, new_audio,
      output_video_path>>

\* the error-report name of each stage, in StageOrder
StageLabels == <<"extraction", "transcription", "correction", "synthesis", "mux">>

RECURSIVE Flatten(_)
Flatten(ss) == IF ss = <<>> THEN <<>> ELSE ss[1] \o Flatten(Tail(ss))

RECURSIVE SumLen(_)
SumLen(ss) == IF ss = <<>> THEN 0 ELSE Len(ss[1]) + SumLen(Tail(ss))

\* the texts of s separated by single spaces, built from the right
RECURSIVE SpaceSeparated(_)
SpaceSeparated(s) ==
    IF Len(s) = 0 THEN ""
    ELSE IF Len(s) = 1 THEN s[1]
    ELSE SpaceSeparated(SubSeq(s, 1, Len(s) - 1)) \o " " \o s[Len(s)]

\* C1: at the end of every run no temporary file made by a stage (extracted
\* waveform, normalized copy, chunk files, intermediate synthesized audio,
\* output video) still exists.
C1_NoStageFileLeft == RunEnded => files \ {temp_path} = {}

\* C2: the stages are invoked in the order extract, transcribe, correct,
\* synthesize, mux, each at most once; a stage is invoked only if every
\* earlier stage returned a non-empty, non-error result; after an error or an
\* empty result no later stage runs and no video is offered; a video without
\* an audio track stops after extraction.
C2_StagesInOrder ==
    /\ Len(calls) <= Len(StageOrder)
    /\ calls = SubSeq(StageOrder, 1, Len(calls))
    /\ \A i \in 1..Len(calls) : \A j \in 1..(i - 1) : NonEmpty(StageResults[j])
    /\ \A i \in 1..Len(StageOrder) :
         (i > Len(calls)) => StageResults[i] = None
    /\ offered => /\ Len(calls) = Len(StageOrder)
                  /\ \A i \in 1..Len(StageOrder) : NonEmpty(StageResults[i])
    /\ (\E i \in 1..Len(errors) : errors[i].stage = "extraction")
         => calls = <<"extract">> /\ ~offered

C2_Witness ==
    /\ RunEnded
    /\ errors = <<[stage |-> "extraction", exc |-> "no_audio"]>>
    /\ calls = <<"extract">>
    /\ ~offered

\* C3: for every waveform of D ms and every chunk length L > 0 the chunks of
\* split_audio_into_chunks come in sequence order, chunk 0 starts at 0, each
\* chunk starts where the one before ends, each lasts at most L, the
\* durations sum to D and the chunks concatenated are the waveform.
C3_ChunksPartition ==
    split_pc = "split" =>
      /\ \A k \in 1..Len(pieces) :
           /\ Len(pieces[k].pcm) <= chunk_length
           /\ pieces[k].start =
                IF k = 1 THEN 0 ELSE pieces[k - 1].start + Len(pieces[k - 1].pcm)
      /\ SumLen([k \in 1..Len(pieces) |-> pieces[k].pcm]) = Len(audio)
      /\ Flatten([k \in 1..Len(pieces) |-> pieces[k].pcm]) = audio

C3_Witness ==
    /\ split_pc = "split"
    /\ Len(pieces) >= 2
    /\ Len(pieces[Len(pieces)].pcm) < chunk_length
    /\ \E i, j \in 1..Len(audio) : audio[i] # audio[j]

\* the text of chunk k (1-based) of a chunked transcription: the first
\* alternatives of its recognition results
ChunkText(k) == SpaceSeparated(stt.responses[k].results)

ChunkedOk == stt.ran /\ stt.chunked /\ stt.failedAt = NoChunk

\* C4 as claimed: on the chunked path the returned text is the single-space
\* join of one text segment per chunk, in chunk order, also when a chunk
\* yields zero or several recognition results.
C4_OneSegmentPerChunk ==
    ChunkedOk =>
      transcription =
        Some(SpaceSeparated([k \in 1..Len(stt.responses) |-> ChunkText(k)]))

\* C4 as amended: on the chunked path the chunks are submitted in index order
\* and the returned text is the single-space join of the first alternatives
\* of all recognition results, in chunk order and in result order within a
\* chunk; it is the join of one segment per chunk whenever every chunk yields
\* at least one result.
C4_SegmentPerResult ==
    ChunkedOk =>
      /\ stt.requests =
           [k \in 1..Len(stt.chunks) |->
              [index |-> k - 1, len |-> stt.chunks[k].stop - stt.chunks[k].start]]
      /\ Len(stt.responses) = Len(stt.chunks)
      /\ transcription =
           Some(SpaceSeparated(Flatten(
              [k \in 1..Len(stt.responses) |-> stt.responses[k].results])))
      /\ (\A k \in 1..Len(stt.responses) : Len(stt.responses[k].results) >= 1)
           => transcription =
                Some(SpaceSeparated([k \in 1..Len(stt.responses) |-> ChunkText(k)]))

C4_Witness ==
    /\ ChunkedOk
    /\ Len(stt.responses) = 3
    /\ stt.responses[1].results = <<"a", "b">>
    /\ stt.responses[2].results = <<>>
    /\ stt.responses[3].results = <<"b">>
    /\ transcription = Some("a b b")

ChunkFailed == stt.ran /\ stt.chunked /\ stt.failedAt # NoChunk

\* the chunk index an error report carries, if it carries one
CarriedIndex(e) == IF "chunkIndex" \in DOMAIN e THEN Some(e.chunkIndex) ELSE None

GoodReply ==
    /\ "status" \in DOMAIN reply
    /\ reply.status \in 200..299
    /\ reply.json
    /\ "choices" \in DOMAIN reply.data
    /\ Len(reply.data.choices) > 0
    /\ "message" \in DOMAIN reply.data.choices[1]
    /\ "content" \in DOMAIN reply.data.choices[1].message
    /\ NonEmpty(reply.data.choices[1].message.content)

\* C6: correct_transcription returns the completion text only for a 2xx
\* reply with a present, non-empty choices[0].message.content; for every
\* other outcome of the backend call it returns the error outcome with an
\* error reported.
C6_CompletionValidated ==
    reply # NoReply =>
      /\ corrected_transcription # None => GoodReply
      /\ ~GoodReply =>
           /\ corrected_transcription = None
           /\ errors # <<>>
           /\ errors[Len(errors)].stage = "correction"

\* C7: a run that starts the pipeline and does not end with the video offered
\* ends with an error reported that names the stage which stopped it.
C7_FailureSurfaced ==
    (RunEnded /\ ~offered) =>
      /\ errors # <<>>
      /\ errors[Len(errors)].stage = StageLabels[Len(calls)]

\* C8: after replace_audio_in_video returns, with an output path or with the
\* failure outcome, the intermediate audio file it wrote no longer exists.
C8_MuxAudioRemoved == (mux.ran /\ mux.wrote) => mux_audio_path \notin files

\* C9: chunking is applied exactly when the normalized waveform is larger
\* than 10 MiB, and then yields ceil(D / 60000) chunks, all of 60000 ms but
\* the last, which lasts D mod 60000, or 60000 when that is 0; otherwise the
\* whole waveform goes out in one recognition request.
C9_ChunkCountAndCeiling ==
    stt.ran =>
      LET D == stt.waveform.len
          n == Len(stt.chunks)
          dur(k) == stt.chunks[k].stop - stt.chunks[k].start
      IN  /\ stt.chunked <=> stt.waveform.size > 10485760
          /\ stt.chunked =>
               /\ n = (D + 59999) \div 60000
               /\ \A k \in 1..(n - 1) : dur(k) = 60000
               /\ n > 0 => dur(n) = IF D % 60000 = 0 THEN 60000 ELSE D % 60000
               /\ {chunk_path(k - 1) : k \in 1..n} \subseteq files
          /\ ~stt.chunked =>
               /\ stt.requests = <<[whole |-> TRUE, len |-> D]>>
               /\ n = 0

C9_Witness ==
    /\ stt.ran
    /\ stt.chunked
    /\ stt.waveform.size = 15 * 1024 * 1024
    /\ Len(stt.chunks) = 3
    /\ stt.chunks[3].stop - stt.chunks[3].start = 43840

\* C10: the temporary copy of the upload exists throughout the run, also
\* while the mux stage reads it, and is removed exactly once at the end of
\* the run, after success and after a failure of any stage.
C10_UploadCopyLifetime ==
    /\ pc \in {"extract", "transcribe", "correct", "synthesize", "mux",
               "offer", "cleanup"}
         => temp_path \in files /\ removals = 0
    /\ mux.ran => mux.video_read
    /\ RunEnded => temp_path \notin files /\ removals = 1

C10_Witness ==
    /\ RunEnded
    /\ mux.ran
    /\ mux.video_read
    /\ output_video_path = None
    /\ removals = 1
    /\ temp_path \notin files

====
